---- MODULE Spec2Model ----
(***************************************************************************)
(* The wasm module exporter of the indexer (src/scripts/export/modules/    *)
(* wasm.ts): handler buffers the records of the event stream, flush        *)
(* deduplicates and normalises the buffer and hands it to exporter, which  *)
(* upserts Contract and WasmEvent rows, queues webhooks and advances the   *)
(* State checkpoint.  Every await of the code is a step of its own here.   *)
(***************************************************************************)
EXTENDS Integers, Sequences, FiniteSets, TLC

(***************************************************************************)
(* Bounds of the model.                                                    *)
(***************************************************************************)
\* lines the driver feeds to handler in one run
MaxLines == 3
\* the same in the runs that look at the blocks of the stream only
MaxLinesBlocks == 4
\* the same in the runs that look at the Contract rows
MaxLinesContracts == 2
\* database calls that may throw, over a whole behaviour
MaxFailures == 3
\* fire() calls in one run
MaxFires == 3
\* lines in the runs that look at the values
MaxLinesValues == 2
\* lines in the runs that look at the webhooks queued
MaxLinesWebhooks == 2

(***************************************************************************)
(* Values.                                                                 *)
(***************************************************************************)
\* JavaScript null / undefined in a string-valued place
Null == "<null>"
\* no initialBlockHeight given to the exporter maker
NoOverride == 0 - 1

\* contractAddress and key are arbitrary strings of the line: the second address
\* extends the first by the first key, so that address \o key is not injective
Addresses == {"juno1", "juno1YWJj"}
\* base64 of "abc" and of "abcabc"
Keys == {"YWJj", "YWJjYWJj"}
\* base64 of "1" (valid JSON), of "x" (no JSON) and the empty value
Values == {"MQ==", "eA==", ""}

max(a, b) == IF a > b THEN a ELSE b
Range(s) == {s[i] : i \in 1..Len(s)}
Last(s) == s[Len(s)]

\* IndexerWasmEvent, the record a structurally valid line parses to
IndexerWasmEvent(h, t, c, id, k, v, d) ==
    [blockHeight |-> h, blockTimeUnixMs |-> t, contractAddress |-> c,
     codeId |-> id, key |-> k, value |-> v, delete |-> d]

\* a line that JSON.parse rejects, and one that lacks a required field
BadLines == {[bad |-> "not json"], [bad |-> "missing field"]}

\* the input sets of the specifications below
LinesBlocks ==
    {IndexerWasmEvent(h, h * 10, "juno1", 1, "YWJj", "MQ==", FALSE) :
        h \in {1, 2, 3}}
LinesEvents ==
    {IndexerWasmEvent(h, h * 10, ck[1], 1, ck[2], v[1], v[2]) :
        h \in {1, 2},
        ck \in {<<"juno1", "YWJj">>, <<"juno1", "YWJjYWJj">>,
                 <<"juno1YWJj", "YWJj">>},
        v \in {<<"MQ==", FALSE>>, <<"", TRUE>>}}
LinesContracts ==
    {IndexerWasmEvent(h, h * 10, c, id, "YWJj", "MQ==", FALSE) :
        h \in {1, 2}, c \in Addresses, id \in {1, 2}}
\* one contract and key in blocks 1 to 3, of either code
LinesMigration ==
    {IndexerWasmEvent(h, h * 10, "juno1", id, "YWJj", "MQ==", FALSE) :
        h \in {1, 2, 3}, id \in {1, 2}}
LinesReplay ==
    {IndexerWasmEvent(h, h * 10, "juno1", 1, k, "MQ==", FALSE) :
        h \in {1, 2}, k \in Keys}
\* one contract, blocks 1, 2 and 10, the key "abc" set or deleted and the key
\* "abcabc" set
LinesWebhooks ==
    {IndexerWasmEvent(h, h, "juno1", 1, kv[1], kv[2], kv[3]) :
        h \in {1, 2, 10},
        kv \in {<<"YWJj", "MQ==", FALSE>>, <<"YWJj", "", TRUE>>,
                <<"YWJjYWJj", "MQ==", FALSE>>}}
\* one key in blocks 1 and 2, set or deleted, with every kind of value: JSON,
\* no JSON, the JSON null, the empty string and a string that decodes to it
LinesValues ==
    {IndexerWasmEvent(h, h, "juno1", 1, "YWJj", v, d) :
        h \in {1, 2}, v \in Values \cup {"bnVsbA==", "*"}, d \in BOOLEAN}
LinesState ==
    {IndexerWasmEvent(h, t, "juno1", 1, "YWJj", "MQ==", FALSE) :
        h \in {1, 2, 3}, t \in {10, 20}}

(***************************************************************************)
(* The pure parts of flush.                                                *)
(***************************************************************************)
\* Buffer.from(value, 'base64').toString('utf-8')
Base64ToUtf8(v) ==
    CASE v = "MQ==" -> "1"
      [] v = "eA==" -> "x"
      [] v = "bnVsbA==" -> "null"
      [] v = "YWJj" -> "abc"
      [] v = "YWJjYWJj" -> "abcabc"
      [] OTHER -> ""

\* JSON.parse: the parsed value, or "threw"
JsonParse(s) ==
    CASE s = "1" -> [ok |-> TRUE, json |-> "1"]
      [] s = "null" -> [ok |-> TRUE, json |-> Null]
      [] OTHER -> [ok |-> FALSE, json |-> Null]

\* base64KeyToEventKey: the comma-separated decimal bytes of the decoded key
base64KeyToEventKey(k) ==
    CASE k = "YWJj" -> "97,98,99"
      [] k = "YWJjYWJj" -> "97,98,99,97,98,99"
      [] OTHER -> ""

\* the property name flush's reduce stores an event under
DedupKey(event) ==
    ToString(event.blockHeight) \o event.contractAddress \o event.key

\* Object.values(uniqueIndexerEvents) of flush: a property keeps the place of its
\* first assignment and holds its last value (no DedupKey is an array index, so
\* the properties enumerate in insertion order)
RECURSIVE UniqueIndexerEvents(_)
UniqueIndexerEvents(evs) ==
    IF evs = <<>> THEN <<>>
    ELSE LET head == evs[1]
             same == {i \in 1..Len(evs) : DedupKey(evs[i]) = DedupKey(head)}
             lastI == CHOOSE i \in same : \A j \in same : j <= i
             rest == SelectSeq(Tail(evs), LAMBDA e : DedupKey(e) # DedupKey(head))
         IN  <<evs[lastI]>> \o UniqueIndexerEvents(rest)

\* (a variant that parses the value of a delete as well)
ParseEventOfDelete(event) ==
    LET value == IF event.value = "" THEN "" ELSE Base64ToUtf8(event.value)
        parsed == JsonParse(value)
        valueJson == IF value # "" /\ parsed.ok THEN parsed.json ELSE Null
    IN  [codeId |-> event.codeId,
         contractAddress |-> event.contractAddress,
         blockHeight |-> ToString(event.blockHeight),
         blockTimeUnixMs |-> ToString(event.blockTimeUnixMs),
         blockTimestamp |-> event.blockTimeUnixMs,
         key |-> base64KeyToEventKey(event.key),
         value |-> value,
         valueJson |-> valueJson,
         delete |-> event.delete]

\* the ParsedWasmEvent flush makes of one event
ParseEvent(event) ==
    LET value == IF event.value = "" THEN "" ELSE Base64ToUtf8(event.value)
        parsed == JsonParse(value)
        valueJson == IF ~event.delete /\ value # "" /\ parsed.ok
                     THEN parsed.json ELSE Null
    IN  [codeId |-> event.codeId,
         contractAddress |-> event.contractAddress,
         blockHeight |-> ToString(event.blockHeight),
         blockTimeUnixMs |-> ToString(event.blockTimeUnixMs),
         blockTimestamp |-> event.blockTimeUnixMs,
         key |-> base64KeyToEventKey(event.key),
         value |-> value,
         valueJson |-> valueJson,
         delete |-> event.delete]

\* parsedEvents of flush
ParsedEvents(evs) ==
    LET unique == UniqueIndexerEvents(evs)
    IN  [i \in 1..Len(unique) |-> ParseEvent(unique[i])]

\* a decimal string of a bigint column read back as a number (BigInt(s), and
\* the database's cast of a string parameter)
BigIntOf(s) == CHOOSE n \in 0..99 : ToString(n) = s

(***************************************************************************)
(* The tables of the database, as the statements of exporter change them.  *)
(***************************************************************************)
\* the first event of parsedEvents with this contractAddress (Array.find)
FirstEventOf(parsedEvents, address) ==
    parsedEvents[CHOOSE i \in 1..Len(parsedEvents) :
        /\ parsedEvents[i].contractAddress = address
        /\ \A j \in 1..(i - 1) : parsedEvents[j].contractAddress # address]

\* uniqueContracts of exporter
UniqueContracts(parsedEvents) ==
    {parsedEvents[i].contractAddress : i \in 1..Len(parsedEvents)}

\* the Contract row exporter builds for an address
ContractRow(parsedEvents, address) ==
    LET event == FirstEventOf(parsedEvents, address)
    IN  [address |-> address,
         codeId |-> event.codeId,
         instantiatedAtBlockHeight |-> event.blockHeight,
         instantiatedAtBlockTimeUnixMs |-> event.blockTimeUnixMs,
         instantiatedAtBlockTimestamp |-> event.blockTimestamp]

\* (a variant that overwrites the whole row)
ContractOnDuplicateAll(old, new) == new

\* updateOnDuplicate: ['codeId'] of Contract.bulkCreate
ContractOnDuplicate(old, new) == [old EXCEPT !.codeId = new.codeId]

\* Contract.bulkCreate: `address` is the primary key
BulkCreateContracts(rows, parsedEvents) ==
    LET addresses == UniqueContracts(parsedEvents)
        present == {r.address : r \in rows}
    IN  {IF r.address \in addresses
         THEN ContractOnDuplicate(r, ContractRow(parsedEvents, r.address))
         ELSE r : r \in rows}
        \cup {ContractRow(parsedEvents, a) : a \in addresses \ present}

\* the unique index on [blockHeight, contractAddress, key] of WasmEvent
EventTuple(e) == <<e.blockHeight, e.contractAddress, e.key>>

\* (a variant that ignores duplicates)
EventOnDuplicateIgnore(old, new) == old

\* updateOnDuplicate: ['value', 'valueJson', 'delete'] of WasmEvent.bulkCreate
EventOnDuplicate(old, new) ==
    [old EXCEPT !.value = new.value, !.valueJson = new.valueJson,
                !.delete = new.delete]

\* the row a ParsedWasmEvent is inserted as
EventRow(id, p) ==
    [id |-> id, contractAddress |-> p.contractAddress,
     blockHeight |-> p.blockHeight, blockTimeUnixMs |-> p.blockTimeUnixMs,
     blockTimestamp |-> p.blockTimestamp, key |-> p.key, value |-> p.value,
     valueJson |-> p.valueJson, delete |-> p.delete]

\* the rows that conflict with a ParsedWasmEvent on the unique index
EventConflicts(rows, p) == {r \in rows : EventTuple(r) = EventTuple(p)}

\* WasmEvent.bulkCreate: the table and the next id after it
RECURSIVE BulkCreateEvents(_, _, _)
BulkCreateEvents(rows, nextId, parsedEvents) ==
    IF parsedEvents = <<>> THEN [rows |-> rows, nextId |-> nextId]
    ELSE LET p == parsedEvents[1]
             dup == EventConflicts(rows, p)
         IN  IF dup # {}
             THEN BulkCreateEvents(
                      (rows \ dup) \cup {EventOnDuplicate(r, p) : r \in dup},
                      nextId, Tail(parsedEvents))
             ELSE BulkCreateEvents(rows \cup {EventRow(nextId, p)},
                                   nextId + 1, Tail(parsedEvents))

\* exportedEvents: the rows WasmEvent.bulkCreate returns, in the order given
ExportedEvents(rows, parsedEvents) ==
    [i \in 1..Len(parsedEvents) |->
        CHOOSE r \in rows : EventTuple(r) = EventTuple(parsedEvents[i])]

\* (a variant that assigns the parameter)
GreatestAssign(column, parameter) == BigIntOf(parameter)

\* GREATEST(column, parameter) of State.update
Greatest(column, parameter) == max(column, BigIntOf(parameter))

\* State.update of exporter: the values of the last parsed event
StateUpdate(st, parsedEvents) ==
    LET lastBlockHeightExported == Last(parsedEvents).blockHeight
        lastBlockTimeUnixMsExported == Last(parsedEvents).blockTimeUnixMs
    IN  [lastWasmBlockHeightExported |->
             Greatest(st.lastWasmBlockHeightExported, lastBlockHeightExported),
         latestBlockHeight |->
             Greatest(st.latestBlockHeight, lastBlockHeightExported),
         latestBlockTimeUnixMs |->
             Greatest(st.latestBlockTimeUnixMs, lastBlockTimeUnixMsExported)]

\* the subscriptions getProcessedWebhooks returns: one, on the key "abc", whose
\* getValue returns the valueJson of the event and whose endpoint is a url
Webhooks ==
    <<[filterKey |-> "97,98,99", getValue |-> "valueJson",
       resolve |-> "static", endpoint |-> [type |-> "Url", url |-> "u"]]>>

\* webhook.filter(event)
Filter(webhook, event) == webhook.filterKey = event.key

\* the decimal digits of a bigint column as the instance holds it, a string
Digits(s) ==
    LET n == BigIntOf(s)
    IN  IF n < 10 THEN <<n>> ELSE <<n \div 10, n % 10>>

\* a < b of two such strings in JavaScript: by code units
StringLess(a, b) ==
    LET x == Digits(a)
        y == Digits(b)
    IN  IF x[1] # y[1] THEN x[1] < y[1]
        ELSE IF Len(x) = 1 THEN Len(y) = 2
        ELSE Len(y) = 2 /\ x[2] < y[2]

\* event.getPreviousEvent(): the rows of the most recent event of the same
\* contract and key in a block before, none or one
GetPreviousEvent(store, event) ==
    LET before == {r \in store :
                      /\ r.contractAddress = event.contractAddress
                      /\ r.key = event.key
                      /\ BigIntOf(r.blockHeight) < BigIntOf(event.blockHeight)}
    IN  {r \in before :
            \A q \in before : BigIntOf(q.blockHeight) <= BigIntOf(r.blockHeight)}

\* the thunk queueWebhooks hands to getValue
GetPrevious(events, store, event) ==
    LET earlier == SelectSeq(events, LAMBDA e :
                       /\ e.contractAddress = event.contractAddress
                       /\ e.key = e.key
                       /\ StringLess(e.blockHeight, event.blockHeight))
    IN  IF earlier # <<>>
        THEN LET previousEvent == Last(earlier)
             IN  IF previousEvent.delete THEN Null
                 ELSE previousEvent.valueJson
        ELSE LET lastEvent == GetPreviousEvent(store, event)
             IN  IF lastEvent = {} THEN Null
                 ELSE LET l == CHOOSE r \in lastEvent : TRUE
                      IN  IF l.delete THEN Null ELSE l.valueJson

\* value of queueWebhooks after its try/catch around webhook.getValue: left
\* undefined where getValue throws or returns undefined
GetValue(webhook, event, previous) ==
    CASE webhook.getValue = "valueJson" ->
             [defined |-> TRUE, value |-> event.valueJson]
      [] webhook.getValue = "change" ->
             [defined |-> TRUE,
              value |-> [from |-> previous, to |-> event.valueJson]]
      [] OTHER -> [defined |-> FALSE, value |-> Null]

\* endpoint of queueWebhooks after its try/catch: webhook.endpoint, or what the
\* function returns, left undefined where it throws or returns undefined
ResolveEndpoint(webhook) ==
    IF webhook.resolve \in {"static", "function"}
    THEN [defined |-> TRUE, value |-> webhook.endpoint]
    ELSE [defined |-> FALSE, value |-> webhook.endpoint]

\* (a variant that skips on an undefined value only)
SkipsOnValueOnly(value, endpoint) == ~value.defined

\* value === undefined || endpoint === undefined
Skips(value, endpoint) == ~value.defined \/ ~endpoint.defined

\* what the callback of webhooksForEvent.map returns for the webhooks from the
\* k-th on: nothing where it skips
RECURSIVE WebhooksForEvent(_, _, _, _, _)
WebhooksForEvent(webhooks, k, events, store, event) ==
    IF k > Len(webhooks) THEN <<>>
    ELSE LET webhook == webhooks[k]
             value == GetValue(webhook, event,
                               GetPrevious(events, store, event))
             endpoint == ResolveEndpoint(webhook)
             made == IF ~Filter(webhook, event) \/ Skips(value, endpoint)
                     THEN <<>>
                     ELSE <<[eventId |-> event.id, endpoint |-> endpoint.value,
                             value |-> value.value, failures |-> 0]>>
         IN  made \o WebhooksForEvent(webhooks, k + 1, events, store, event)

\* the same for the events from the k-th on: events.flatMap
RECURSIVE EventsFlatMap(_, _, _, _)
EventsFlatMap(webhooks, k, events, store) ==
    IF k > Len(events) THEN <<>>
    ELSE WebhooksForEvent(webhooks, 1, events, store, events[k])
             \o EventsFlatMap(webhooks, k + 1, events, store)

\* the rows PendingWebhook.queueWebhooks creates, with the ids the table gives
PendingWebhooksToCreate(webhooks, store, events, nextId) ==
    LET rows == EventsFlatMap(webhooks, 1, events, store)
    IN  [i \in 1..Len(rows) |->
            [id |-> nextId + i - 1, eventId |-> rows[i].eventId,
             endpoint |-> rows[i].endpoint, value |-> rows[i].value,
             failures |-> 0]]

(***************************************************************************)
(* The state.                                                              *)
(***************************************************************************)
VARIABLES
    \* the arguments of the exporter maker
    \* (state is the State row as read before the call), and initialBlock
    batch, updateComputations, sendWebhooks, initialBlockHeight, state,
    initialBlock,
    \* the closure of wasm(): the buffer and the two flags
    pending, lastBlockHeightSeen, catchingUp,
    \* the handler call in progress: where it is and the event it holds
    hpc, hevent,
    \* the flush calls in progress, each with the locals of its exporter call
    fl,
    \* the database
    contracts, wasmEvents, nextEventId, dbState, pendingWebhooks, nextWebhookId,
    \* what the run has done so far (read by no action): the lines handled with
    \* their outcome, the "caught up" markers logged, the exceptions captured,
    \* the exporter calls made, the writes each WasmEvent tuple received
    handled, caughtUpLog, captured, calls, writes,
    \* database calls that may still throw
    faultsLeft,
    \* the driver: the lines it feeds in one run, whether it has stopped
    \* reading (end of the stream, shutdown), and for a replay of the stream the
    \* run, the lines to feed again and the database as the first run left it
    lineLimit, stopped, run, replayLines, snapshot,
    \* the subscriptions getProcessedWebhooks returns and whether the
    \* configuration has a soketi section
    processedWebhooks, soketi,
    \* the fire() call in progress on a PendingWebhook instance, and what was
    \* done so far (read by no action): the requests sent, the fire() calls
    \* that returned or threw, the queueWebhooks calls
    firing, deliveries, fired, queued,
    \* the formula evaluation: the formula, its environment and the result
    evaluation

config == <<batch, updateComputations, sendWebhooks, initialBlockHeight,
            state, initialBlock>>
closure == <<pending, lastBlockHeightSeen, catchingUp>>
db == <<contracts, wasmEvents, nextEventId, dbState, pendingWebhooks,
        nextWebhookId>>
history == <<handled, caughtUpLog, captured, calls, writes>>
driver == <<lineLimit, stopped, run, replayLines, snapshot>>
rest == <<processedWebhooks, soketi, firing, deliveries, fired, queued,
          evaluation>>
vars == <<config, closure, hpc, hevent, fl, db, history, faultsLeft, driver,
          rest>>

FlushIds == {1, 2}
NoEvent == [bad |-> "none"]
IdleFrame ==
    [pc |-> "idle", trigger |-> "none", batch |-> <<>>, parsedEvents |-> <<>>,
     attempts |-> 0, contracts |-> {}, exportedEvents |-> <<>>,
     eventsBefore |-> {},
     stateBefore |-> [lastWasmBlockHeightExported |-> 0,
                      latestBlockHeight |-> 0, latestBlockTimeUnixMs |-> 0],
     call |-> 0, failedAt |-> "none", failures |-> 0]

\* no fire() call in progress
NoFiring ==
    [pc |-> "idle", this |-> [id |-> 0], requests |-> <<>>,
     delivered |-> FALSE, before |-> 0]

\* no formula evaluated
NoEvaluation == [formula |-> "none", done |-> FALSE]

\* initialBlock of wasm(): the override, else the block after the last exported
InitialBlock(override, st) ==
    IF override # NoOverride THEN override
    ELSE st.lastWasmBlockHeightExported + 1

\* the state after wasm(...) on a fresh database whose State row exists
InitExporter(lines, batches, overrides, computations, webhooks, latest, faults) ==
    /\ batch \in batches
    /\ updateComputations \in computations
    /\ sendWebhooks \in webhooks
    /\ contracts = {}
    /\ wasmEvents = {}
    /\ nextEventId = 1
    /\ dbState \in {[lastWasmBlockHeightExported |-> 0, latestBlockHeight |-> l,
                     latestBlockTimeUnixMs |-> l * 10] : l \in latest}
    /\ nextWebhookId = 1
    /\ initialBlockHeight \in overrides
    /\ state = dbState
    /\ initialBlock = InitialBlock(initialBlockHeight, state)
    /\ pending = <<>>
    /\ lastBlockHeightSeen = 0
    /\ catchingUp = TRUE
    /\ hpc = "idle"
    /\ hevent = NoEvent
    /\ fl = [i \in FlushIds |-> IdleFrame]
    /\ handled = <<>>
    /\ caughtUpLog = 0
    /\ captured = 0
    /\ calls = <<>>
    /\ writes = <<>>
    /\ faultsLeft = faults
    /\ lineLimit = lines
    /\ stopped = FALSE
    /\ run = 1
    /\ replayLines = <<>>
    /\ snapshot = <<>>

\* the PendingWebhook table, the subscriptions and the soketi configuration
\* at the start, with no fire() call made yet
InitHooks(rows, subscriptions, soketis) ==
    /\ pendingWebhooks \in rows
    /\ processedWebhooks \in subscriptions
    /\ soketi \in soketis
    /\ firing = NoFiring
    /\ deliveries = <<>>
    /\ fired = <<>>
    /\ queued = <<>>

\* the same on an empty PendingWebhook table, with the one subscription above
\* and no formula evaluated
InitWith(lines, batches, overrides, computations, webhooks, latest, faults) ==
    /\ InitExporter(lines, batches, overrides, computations, webhooks, latest,
                    faults)
    /\ InitHooks({{}}, {Webhooks}, {TRUE})
    /\ evaluation = NoEvaluation

(***************************************************************************)
(* flush, up to its await of exporter, and exporter up to its first await. *)
(***************************************************************************)
Idle == hpc = "idle" /\ \A i \in FlushIds : fl[i].pc = "idle"
Running(i) == fl[i].pc \notin {"idle", "done", "threw"}
FreeFrame == CHOOSE i \in FlushIds :
    fl[i].pc = "idle" /\ \A j \in FlushIds : fl[j].pc = "idle" => i <= j

\* the records handler pushed so far, in the order of the stream
Accepted ==
    LET pushed == SelectSeq(handled, LAMBDA x : x.outcome = "appended")
    IN  [i \in 1..Len(pushed) |-> pushed[i].line]

\* flush() on a non-empty buffer, called by `trigger`
BeginFlush(i, trigger) ==
    /\ fl' = [fl EXCEPT ![i] =
                [pc |-> "getState", trigger |-> trigger, batch |-> pending,
                 parsedEvents |-> ParsedEvents(pending), attempts |-> 3,
                 contracts |-> {}, exportedEvents |-> <<>>,
                 eventsBefore |-> wasmEvents, stateBefore |-> dbState,
                 call |-> Len(calls) + 1,
                 failedAt |-> "none", failures |-> 0]]
    /\ calls' = Append(calls,
                [trigger |-> trigger, batch |-> pending,
                 first |-> Len(Accepted) - Len(pending) + 1,
                 last |-> Len(Accepted),
                 parsedEvents |-> ParsedEvents(pending),
                 overlapping |-> \E j \in FlushIds : Running(j),
                 outcome |-> "running"])

Outcome(i, outcome) == [calls EXCEPT ![fl[i].call].outcome = outcome]

(***************************************************************************)
(* handler.                                                                *)
(***************************************************************************)
MayHandle == Idle /\ ~stopped /\ Len(handled) < lineLimit

\* (a variant that also skips the initial block)
BeforeOrAtInitialBlock(event) == event.blockHeight <= initialBlock

\* BigInt(event.blockHeight) < initialBlock
BeforeInitialBlock(event) == event.blockHeight < initialBlock

\* (a variant that drops the buffer with the line)
HandlerInvalidClears(line) ==
    /\ MayHandle
    /\ line \in BadLines
    /\ captured' = captured + 1
    /\ pending' = <<>>
    /\ handled' = Append(handled, [line |-> line, outcome |-> "invalid"])
    /\ UNCHANGED <<config, lastBlockHeightSeen, catchingUp, hpc, hevent, fl,
                   db, caughtUpLog, calls, writes, faultsLeft, driver, rest>>

\* the line is no JSON or lacks a field: captured and skipped
HandlerInvalid(line) ==
    /\ MayHandle
    /\ line \in BadLines
    /\ captured' = captured + 1
    /\ handled' = Append(handled, [line |-> line, outcome |-> "invalid"])
    /\ UNCHANGED <<config, closure, hpc, hevent, fl, db, caughtUpLog, calls,
                   writes, faultsLeft, driver, rest>>

\* the event is from a block before the initial block
HandlerSkip(event) ==
    /\ MayHandle
    /\ event \notin BadLines
    /\ BeforeInitialBlock(event)
    /\ lastBlockHeightSeen' = event.blockHeight
    /\ handled' = Append(handled, [line |-> event, outcome |-> "skipped"])
    /\ UNCHANGED <<config, pending, catchingUp, hpc, hevent, fl, db,
                   caughtUpLog, captured, calls, writes, faultsLeft, driver,
                   rest>>

\* the "caught up" marker of the first event at or after the initial block
CaughtUp ==
    /\ catchingUp' = FALSE
    /\ caughtUpLog' = IF catchingUp THEN caughtUpLog + 1 ELSE caughtUpLog

\* (a variant that does not wait for the next block)
FlushDueAnyBlock(event) == Len(pending) >= batch

\* the condition of the flush in handler
FlushDue(event) ==
    Len(pending) >= batch /\ event.blockHeight > lastBlockHeightSeen

\* no flush is due (or flush() returns at once on an empty buffer): the event
\* is pushed
HandlerAppend(event) ==
    /\ MayHandle
    /\ event \notin BadLines
    /\ ~BeforeInitialBlock(event)
    /\ CaughtUp
    /\ ~FlushDue(event) \/ pending = <<>>
    /\ pending' = Append(pending, event)
    /\ lastBlockHeightSeen' = event.blockHeight
    /\ handled' = Append(handled, [line |-> event, outcome |-> "appended"])
    /\ UNCHANGED <<config, hpc, hevent, fl, db, captured, calls, writes,
                   faultsLeft, driver, rest>>

\* a flush is due: handler awaits flush()
HandlerFlush(event) ==
    /\ MayHandle
    /\ event \notin BadLines
    /\ ~BeforeInitialBlock(event)
    /\ CaughtUp
    /\ FlushDue(event)
    /\ pending # <<>>
    /\ hpc' = "awaitFlush"
    /\ hevent' = event
    /\ BeginFlush(FreeFrame, "handler")
    /\ UNCHANGED <<config, pending, lastBlockHeightSeen, db, handled, captured,
                   writes, faultsLeft, driver, rest>>

\* (a variant that returns after the flush without the push)
HandlerResumeWithoutPush ==
    /\ hpc = "awaitFlush"
    /\ \E i \in FlushIds : fl[i].trigger = "handler" /\ fl[i].pc = "done"
    /\ lastBlockHeightSeen' = hevent.blockHeight
    /\ handled' = Append(handled, [line |-> hevent, outcome |-> "appended"])
    /\ hpc' = "idle"
    /\ hevent' = NoEvent
    /\ fl' = [i \in FlushIds |->
                IF fl[i].trigger = "handler" THEN IdleFrame ELSE fl[i]]
    /\ UNCHANGED <<config, pending, catchingUp, db, caughtUpLog, captured,
                   calls, writes, faultsLeft, driver, rest>>

\* flush() returned to handler: the event is pushed
HandlerResume ==
    /\ hpc = "awaitFlush"
    /\ \E i \in FlushIds : fl[i].trigger = "handler" /\ fl[i].pc = "done"
    /\ pending' = Append(pending, hevent)
    /\ lastBlockHeightSeen' = hevent.blockHeight
    /\ handled' = Append(handled, [line |-> hevent, outcome |-> "appended"])
    /\ hpc' = "idle"
    /\ hevent' = NoEvent
    /\ fl' = [i \in FlushIds |->
                IF fl[i].trigger = "handler" THEN IdleFrame ELSE fl[i]]
    /\ UNCHANGED <<config, catchingUp, db, caughtUpLog, captured, calls,
                   writes, faultsLeft, driver, rest>>

\* flush() threw: handler throws what it threw, the event is not pushed, and the
\* driver, which halts on a database error, reads no further line
HandlerRethrow ==
    /\ hpc = "awaitFlush"
    /\ \E i \in FlushIds : fl[i].trigger = "handler" /\ fl[i].pc = "threw"
    /\ handled' = Append(handled, [line |-> hevent, outcome |-> "threw"])
    /\ hpc' = "idle"
    /\ hevent' = NoEvent
    /\ fl' = [i \in FlushIds |->
                IF fl[i].trigger = "handler" THEN IdleFrame ELSE fl[i]]
    /\ stopped' = TRUE
    /\ UNCHANGED <<config, closure, db, caughtUpLog, captured, calls, writes,
                   faultsLeft, lineLimit, run, replayLines, snapshot, rest>>

(***************************************************************************)
(* exporter, one await at a time, and the end of flush.                    *)
(***************************************************************************)
Step(i, pc) == fl' = [fl EXCEPT ![i].pc = pc]

\* await State.getSingleton()
GetState(i) ==
    /\ fl[i].pc = "getState"
    /\ Step(i, "contracts")
    /\ UNCHANGED <<config, closure, hpc, hevent, db, history, faultsLeft,
                   driver, rest>>

\* await Contract.bulkCreate(...) succeeds: break
CreateContracts(i) ==
    /\ fl[i].pc = "contracts"
    /\ contracts' = BulkCreateContracts(contracts, fl[i].parsedEvents)
    /\ Step(i, "findContracts")
    /\ UNCHANGED <<config, closure, hpc, hevent, wasmEvents, nextEventId,
                   dbState, pendingWebhooks, nextWebhookId, history,
                   faultsLeft, driver, rest>>

\* (a variant that gives up at the first failure)
AttemptsLeftNone(attempts) == 0

\* contractCreationAttempts after a failed Contract.bulkCreate
AttemptsLeft(attempts) == attempts - 1

\* await Contract.bulkCreate(...) throws: try again, or throw after the last try
CreateContractsFails(i) ==
    /\ fl[i].pc = "contracts"
    /\ faultsLeft > 0
    /\ faultsLeft' = faultsLeft - 1
    /\ captured' = captured + 1
    /\ LET left == AttemptsLeft(fl[i].attempts)
       IN  /\ fl' = [fl EXCEPT
                       ![i].attempts = left,
                       ![i].failures = fl[i].failures + 1,
                       ![i].pc = IF left = 0 THEN "threw" ELSE "contracts",
                       ![i].failedAt = IF left = 0 THEN "contracts" ELSE "none"]
           /\ calls' = IF left = 0 THEN Outcome(i, "threw") ELSE calls
    /\ UNCHANGED <<config, closure, hpc, hevent, db, handled, caughtUpLog,
                   writes, driver, rest>>

\* await Contract.findAll({ where: { address: uniqueContracts } })
FindContracts(i) ==
    /\ fl[i].pc = "findContracts"
    /\ fl' = [fl EXCEPT
                ![i].contracts =
                    {r \in contracts :
                        r.address \in UniqueContracts(fl[i].parsedEvents)},
                ![i].pc = "events"]
    /\ UNCHANGED <<config, closure, hpc, hevent, db, history, faultsLeft,
                   driver, rest>>

\* the writes of one WasmEvent.bulkCreate, added to those each tuple received:
\* what is written, and the last record of the tuple in the buffer handed over
Written(old, frame) ==
    LET parsedEvents == frame.parsedEvents
        tuples == {EventTuple(parsedEvents[i]) : i \in 1..Len(parsedEvents)}
        entry(t) ==
            LET p == CHOOSE q \in Range(parsedEvents) : EventTuple(q) = t
                ofTuple == SelectSeq(frame.batch,
                               LAMBDA e : EventTuple(ParseEvent(e)) = t)
            IN  [tuple |-> t,
                 written |-> <<p.value, p.valueJson, p.delete>>,
                 latest |-> LET l == ParseEvent(Last(ofTuple))
                            IN  <<l.value, l.valueJson, l.delete>>]
    IN  old \o [i \in 1..Len(parsedEvents) |->
                    entry(EventTuple(parsedEvents[i]))]

\* await WasmEvent.bulkCreate(parsedEvents, ...), and the contract of each row
CreateEvents(i) ==
    /\ fl[i].pc = "events"
    /\ LET made == BulkCreateEvents(wasmEvents, nextEventId, fl[i].parsedEvents)
       IN  /\ wasmEvents' = made.rows
           /\ nextEventId' = made.nextId
           /\ fl' = [fl EXCEPT
                       ![i].exportedEvents =
                           ExportedEvents(made.rows, fl[i].parsedEvents),
                       ![i].pc = "transform"]
    /\ writes' = Written(writes, fl[i])
    /\ UNCHANGED <<config, closure, hpc, hevent, contracts, dbState,
                   pendingWebhooks, nextWebhookId, handled, caughtUpLog,
                   captured, calls, faultsLeft, driver, rest>>

\* await WasmEventTransformation.transformParsedEvents(parsedEvents)
Transform(i) ==
    /\ fl[i].pc = "transform"
    /\ Step(i, IF updateComputations THEN "computations"
               ELSE IF sendWebhooks THEN "webhooks" ELSE "state")
    /\ UNCHANGED <<config, closure, hpc, hevent, db, history, faultsLeft,
                   driver, rest>>

\* await updateComputationValidityDependentOnChanges([...])
UpdateComputations(i) ==
    /\ fl[i].pc = "computations"
    /\ Step(i, IF sendWebhooks THEN "webhooks" ELSE "state")
    /\ UNCHANGED <<config, closure, hpc, hevent, db, history, faultsLeft,
                   driver, rest>>

\* await PendingWebhook.queueWebhooks(state, exportedEvents)
QueueWebhooks(i) ==
    /\ fl[i].pc = "webhooks"
    /\ LET made == PendingWebhooksToCreate(processedWebhooks, wasmEvents,
                                           fl[i].exportedEvents, nextWebhookId)
       IN  /\ pendingWebhooks' = pendingWebhooks \cup Range(made)
           /\ nextWebhookId' = nextWebhookId + Len(made)
           /\ queued' = Append(queued,
                            [events |-> fl[i].exportedEvents,
                             store |-> wasmEvents, rows |-> made])
    /\ Step(i, "accountWebhooks")
    /\ UNCHANGED <<config, closure, hpc, hevent, contracts, wasmEvents,
                   nextEventId, dbState, history, faultsLeft, driver,
                   processedWebhooks, soketi, firing, deliveries, fired,
                   evaluation>>

\* await AccountWebhook.queueWebhooks(exportedEvents)
QueueAccountWebhooks(i) ==
    /\ fl[i].pc = "accountWebhooks"
    /\ Step(i, "state")
    /\ UNCHANGED <<config, closure, hpc, hevent, db, history, faultsLeft,
                   driver, rest>>

\* (a variant that returns without the reindex)
UpdateStateReturns(i) ==
    /\ fl[i].pc = "state"
    /\ dbState' = StateUpdate(dbState, fl[i].parsedEvents)
    /\ Step(i, "clear")
    /\ UNCHANGED <<config, closure, hpc, hevent, contracts, wasmEvents,
                   nextEventId, pendingWebhooks, nextWebhookId, history,
                   faultsLeft, driver, rest>>

\* await State.update({...}, { where: { singleton: true } })
UpdateState(i) ==
    /\ fl[i].pc = "state"
    /\ dbState' = StateUpdate(dbState, fl[i].parsedEvents)
    /\ Step(i, "reindex")
    /\ UNCHANGED <<config, closure, hpc, hevent, contracts, wasmEvents,
                   nextEventId, pendingWebhooks, nextWebhookId, history,
                   faultsLeft, driver, rest>>

\* await updateIndexesForContracts(contracts), and the return of exporter
Reindex(i) ==
    /\ fl[i].pc = "reindex"
    /\ Step(i, "clear")
    /\ UNCHANGED <<config, closure, hpc, hevent, db, history, faultsLeft,
                   driver, rest>>

\* flush after its await of exporter: pending.length = 0
ClearQueue(i) ==
    /\ fl[i].pc = "clear"
    /\ pending' = <<>>
    /\ Step(i, "done")
    /\ calls' = Outcome(i, "done")
    /\ UNCHANGED <<config, lastBlockHeightSeen, catchingUp, hpc, hevent, db,
                   handled, caughtUpLog, captured, writes, faultsLeft, driver,
                   rest>>

\* (a variant where flush clears the queue although exporter threw)
ThrowsAndClears(i) ==
    /\ fl[i].pc \in {"getState", "findContracts", "events", "transform",
                     "computations", "webhooks", "accountWebhooks", "state",
                     "reindex"}
    /\ faultsLeft > 0
    /\ faultsLeft' = faultsLeft - 1
    /\ calls' = Outcome(i, "threw")
    /\ fl' = [fl EXCEPT ![i].pc = "threw", ![i].failedAt = fl[i].pc]
    /\ pending' = <<>>
    /\ UNCHANGED <<config, lastBlockHeightSeen, catchingUp, hpc, hevent, db,
                   handled, caughtUpLog, captured, writes, driver, rest>>

\* any other await of exporter throws: exporter and flush throw it on
Throws(i) ==
    /\ fl[i].pc \in {"getState", "findContracts", "events", "transform",
                     "computations", "webhooks", "accountWebhooks", "state",
                     "reindex"}
    /\ faultsLeft > 0
    /\ faultsLeft' = faultsLeft - 1
    /\ calls' = Outcome(i, "threw")
    /\ fl' = [fl EXCEPT ![i].pc = "threw", ![i].failedAt = fl[i].pc]
    /\ UNCHANGED <<config, closure, hpc, hevent, db, handled, caughtUpLog,
                   captured, writes, driver, rest>>

Exporter(i) ==
    \/ GetState(i)
    \/ CreateContracts(i)
    \/ FindContracts(i)
    \/ CreateEvents(i)
    \/ Transform(i)
    \/ UpdateComputations(i)
    \/ QueueWebhooks(i)
    \/ QueueAccountWebhooks(i)
    \/ UpdateState(i)
    \/ Reindex(i)
    \/ ClearQueue(i)

\* a database call of exporter throws
Fails(i) ==
    \/ CreateContractsFails(i)
    \/ Throws(i)

(***************************************************************************)
(* flush() called by the driver (at the end of the stream, on shutdown).   *)
(***************************************************************************)
\* the driver stops reading and calls flush(), or calls it again after it threw;
\* on an empty buffer flush() returns at once
Flush ==
    /\ Idle
    /\ stopped' = TRUE
    /\ IF pending = <<>>
       THEN UNCHANGED <<fl, calls>>
       ELSE BeginFlush(FreeFrame, "driver")
    /\ UNCHANGED <<config, closure, hpc, hevent, db, handled, caughtUpLog,
                   captured, writes, faultsLeft, lineLimit, run, replayLines,
                   snapshot, rest>>

\* flush() returns to the driver, or throws
FlushReturns ==
    \E i \in FlushIds :
        /\ fl[i].trigger = "driver"
        /\ fl[i].pc \in {"done", "threw"}
        /\ fl' = [fl EXCEPT ![i] = IdleFrame]
        /\ UNCHANGED <<config, closure, hpc, hevent, db, history, faultsLeft,
                       driver, rest>>

\* flush() called while an earlier flush() awaits the database (a shutdown
\* that does not wait for the line in progress)
FlushWhileFlushing ==
    /\ \E j \in FlushIds : Running(j)
    /\ \E i \in FlushIds : fl[i].pc = "idle"
    /\ stopped' = TRUE
    /\ IF pending = <<>>
       THEN UNCHANGED <<fl, calls>>
       ELSE BeginFlush(FreeFrame, "driver")
    /\ UNCHANGED <<config, closure, hpc, hevent, db, handled, caughtUpLog,
                   captured, writes, faultsLeft, lineLimit, run, replayLines,
                   snapshot, rest>>

\* the tables the replay of a stream is compared on
Database == <<contracts, wasmEvents, dbState, pendingWebhooks>>

\* the stream ended and flush() returned: the exporter is made again with the
\* same initial block and batch, to be given the same lines
Replay ==
    /\ run = 1
    /\ Idle
    /\ stopped
    /\ pending = <<>>
    /\ handled # <<>>
    /\ run' = 2
    /\ snapshot' = Database
    /\ replayLines' = [k \in 1..Len(handled) |-> handled[k].line]
    /\ stopped' = FALSE
    /\ initialBlockHeight' = initialBlock
    /\ state' = dbState
    /\ initialBlock' = InitialBlock(initialBlock, dbState)
    /\ lastBlockHeightSeen' = 0
    /\ catchingUp' = TRUE
    /\ handled' = <<>>
    /\ calls' = <<>>
    /\ caughtUpLog' = 0
    /\ UNCHANGED <<batch, updateComputations, sendWebhooks, pending, hpc,
                   hevent, fl, db, captured, writes, faultsLeft, lineLimit,
                   rest>>

\* the driver was stopped after some line and flush() returned: the exporter is
\* made again with no initial block given, and so starts after the last block
\* exported, to be given the stream from its beginning
Restart ==
    /\ run = 1
    /\ Idle
    /\ stopped
    /\ pending = <<>>
    /\ handled # <<>>
    /\ run' = 2
    /\ snapshot' = <<initialBlock>>
    /\ replayLines' = [k \in 1..Len(handled) |-> handled[k].line]
    /\ stopped' = FALSE
    /\ initialBlockHeight' = NoOverride
    /\ state' = dbState
    /\ initialBlock' = InitialBlock(NoOverride, dbState)
    /\ lastBlockHeightSeen' = 0
    /\ catchingUp' = TRUE
    /\ handled' = <<>>
    /\ calls' = <<>>
    /\ caughtUpLog' = 0
    /\ UNCHANGED <<batch, updateComputations, sendWebhooks, pending, hpc,
                   hevent, fl, db, captured, writes, faultsLeft, lineLimit,
                   rest>>

\* the next line of the replay
ReplayLine == replayLines[Len(handled) + 1]

\* a valid line
HandlerValid(event) ==
    \/ HandlerSkip(event)
    \/ HandlerAppend(event)
    \/ HandlerFlush(event)

\* what follows a call, whatever the lines are
Steps ==
    \/ HandlerResume
    \/ Flush
    \/ FlushReturns
    \/ \E i \in FlushIds : Exporter(i)

\* the same where database calls may throw
Faults ==
    \/ HandlerRethrow
    \/ \E i \in FlushIds : Fails(i)

(***************************************************************************)
(* PendingWebhook.fire, one await at a time.                               *)
(***************************************************************************)
\* everything of the exporter but the PendingWebhook table
exporting == <<config, closure, hpc, hevent, fl, contracts, wasmEvents,
               nextEventId, dbState, nextWebhookId, history, driver>>

\* WebhookType
WebhookType == {"Url", "Soketi"}
\* endpoints of the three kinds a row can hold: a url, a soketi channel, and a
\* value of the JSONB column with another type
Endpoints ==
    {[type |-> "Url", url |-> "u"],
     [type |-> "Soketi", channel |-> "c", event |-> "e"],
     [type |-> "Email"]}

\* (a switch whose Url case has no break)
SwitchFallsThrough(type, hasSoketi) ==
    CASE type = "Url" -> <<"axios", "pusher">>
      [] type = "Soketi" -> IF hasSoketi THEN <<"pusher">> ELSE <<>>
      [] OTHER -> <<>>

\* (a switch whose default case posts to the url)
SwitchDefaultPosts(type, hasSoketi) ==
    CASE type = "Soketi" -> IF hasSoketi THEN <<"pusher">> ELSE <<>>
      [] OTHER -> <<"axios">>

\* the switch of fire: the requests the case of the endpoint type sends, none
\* where the case throws
Switch(type, hasSoketi) ==
    CASE type = "Url" -> <<"axios">>
      [] type = "Soketi" -> IF hasSoketi THEN <<"pusher">> ELSE <<>>
      [] OTHER -> <<>>

\* catch (err): this.failures++, up to the await of this.save()
Catch(f) ==
    [f EXCEPT !.this.failures = f.this.failures + 1, !.pc = "save"]

\* fire() is called on the instance of a row: the switch, up to the first await
Fire(row) ==
    /\ firing.pc = "idle"
    /\ Len(fired) < MaxFires
    /\ row \in pendingWebhooks
    /\ LET requests == Switch(row.endpoint.type, soketi)
           f == [pc |-> "request", this |-> row, requests |-> <<>>,
                 delivered |-> FALSE, before |-> row.failures]
       IN  IF requests = <<>>
           THEN /\ firing' = Catch(f)
                /\ UNCHANGED deliveries
           ELSE /\ firing' = [f EXCEPT !.requests = <<requests[1]>>]
                /\ deliveries' = Append(deliveries,
                                    [id |-> row.id, request |-> requests[1]])
    /\ UNCHANGED <<exporting, pendingWebhooks, faultsLeft, processedWebhooks,
                   soketi, fired, queued, evaluation>>

\* the request of a case returns: a next request if the case goes on, else break
\* and this.destroy()
RequestReturns ==
    /\ firing.pc = "request"
    /\ LET requests == Switch(firing.this.endpoint.type, soketi)
           sent == Len(firing.requests)
       IN  IF sent < Len(requests)
           THEN /\ firing' = [firing EXCEPT
                                !.requests = Append(@, requests[sent + 1])]
                /\ deliveries' = Append(deliveries,
                                    [id |-> firing.this.id,
                                     request |-> requests[sent + 1]])
           ELSE /\ firing' = [firing EXCEPT !.pc = "destroy",
                                            !.delivered = TRUE]
                /\ UNCHANGED deliveries
    /\ UNCHANGED <<exporting, pendingWebhooks, faultsLeft, processedWebhooks,
                   soketi, fired, queued, evaluation>>

\* the request throws
RequestThrows ==
    /\ firing.pc = "request"
    /\ firing' = Catch(firing)
    /\ UNCHANGED <<exporting, pendingWebhooks, faultsLeft, processedWebhooks,
                   soketi, deliveries, fired, queued, evaluation>>

\* `stored` of a row that fire() deleted
Deleted == 0 - 1

\* a fire() call that ended, as `fired` keeps it: `after` is this.failures and
\* `stored` the failures of the row in the table, both at the end of the call
Fired(outcome, saved, stored) ==
    [id |-> firing.this.id, endpoint |-> firing.this.endpoint,
     requests |-> firing.requests, delivered |-> firing.delivered,
     before |-> firing.before, after |-> firing.this.failures,
     outcome |-> outcome, saved |-> saved, stored |-> stored]

\* await this.destroy() returns, and fire() with it
Destroy ==
    /\ firing.pc = "destroy"
    /\ pendingWebhooks' = {r \in pendingWebhooks : r.id # firing.this.id}
    /\ fired' = Append(fired, Fired("returned", FALSE, Deleted))
    /\ firing' = NoFiring
    /\ UNCHANGED <<exporting, faultsLeft, processedWebhooks, soketi,
                   deliveries, queued, evaluation>>

\* await this.destroy() throws
DestroyThrows ==
    /\ firing.pc = "destroy"
    /\ faultsLeft > 0
    /\ faultsLeft' = faultsLeft - 1
    /\ firing' = Catch(firing)
    /\ UNCHANGED <<exporting, pendingWebhooks, processedWebhooks, soketi,
                   deliveries, fired, queued, evaluation>>

\* await this.save() returns; throw err
Save ==
    /\ firing.pc = "save"
    /\ pendingWebhooks' =
          {r \in pendingWebhooks : r.id # firing.this.id} \cup {firing.this}
    /\ fired' = Append(fired, Fired("threw", TRUE, firing.this.failures))
    /\ firing' = NoFiring
    /\ UNCHANGED <<exporting, faultsLeft, processedWebhooks, soketi,
                   deliveries, queued, evaluation>>

\* await this.save() throws, out of fire()
SaveThrows ==
    /\ firing.pc = "save"
    /\ faultsLeft > 0
    /\ faultsLeft' = faultsLeft - 1
    /\ fired' = Append(fired, Fired("threw", FALSE, firing.before))
    /\ firing' = NoFiring
    /\ UNCHANGED <<exporting, pendingWebhooks, processedWebhooks, soketi,
                   deliveries, queued, evaluation>>

(***************************************************************************)
(* The specifications.                                                     *)
(***************************************************************************)
\* a run of the exporter on the event lines, with a database that does not fail
Init ==
    InitWith(MaxLines, {1, 2}, {NoOverride}, {TRUE}, BOOLEAN, {0}, 0)
Next ==
    \/ \E line \in LinesEvents : HandlerAppend(line) \/ HandlerFlush(line)
    \/ Steps
Spec == Init /\ [][Next]_vars

\* a run on lines that differ in their block only, with an initial block
\* given or not and a database whose calls may throw
InitBlocks ==
    InitWith(MaxLinesBlocks, {1, 2}, {NoOverride, 2}, {TRUE}, {TRUE}, {0}, 1)
NextBlocks ==
    \/ \E line \in LinesBlocks : HandlerValid(line)
    \/ Steps
    \/ Faults
SpecBlocks == InitBlocks /\ [][NextBlocks]_vars

\* a run on lines that differ in block, contract and codeId, with a database
\* whose calls may throw
InitContracts ==
    InitWith(MaxLinesContracts, {1}, {NoOverride}, {TRUE}, {TRUE}, {0},
             MaxFailures)
NextContracts ==
    \/ \E line \in LinesContracts : HandlerAppend(line) \/ HandlerFlush(line)
    \/ Steps
    \/ Faults
SpecContracts == InitContracts /\ [][NextContracts]_vars

\* a run on lines that differ in block and block time, with a State row that
\* another module may have advanced
InitState ==
    InitWith(MaxLines, {1, 2}, {NoOverride}, {TRUE}, {TRUE}, {0, 2}, 0)
NextState ==
    \/ \E line \in LinesState : HandlerAppend(line) \/ HandlerFlush(line)
    \/ Steps
SpecState == InitState /\ [][NextState]_vars

\* a run in which flush() may be called while a flush is in progress
InitConcurrent ==
    InitWith(MaxLines, {1, 2}, {NoOverride}, {TRUE}, {TRUE}, {0}, 0)
NextConcurrent ==
    \/ \E line \in LinesBlocks : HandlerAppend(line) \/ HandlerFlush(line)
    \/ Steps
    \/ FlushWhileFlushing
SpecConcurrent == InitConcurrent /\ [][NextConcurrent]_vars

\* a run to the end of the stream, and a second run on the same lines
InitReplay ==
    InitWith(MaxLines, {1, 2}, {NoOverride}, {TRUE}, BOOLEAN, {0}, 0)
NextReplay ==
    \/ /\ run = 1
       /\ \E line \in LinesReplay : HandlerAppend(line) \/ HandlerFlush(line)
    \/ /\ run = 2
       /\ Len(handled) < Len(replayLines)
       /\ HandlerAppend(ReplayLine) \/ HandlerFlush(ReplayLine)
    \/ Steps
    \/ Replay
SpecReplay == InitReplay /\ [][NextReplay]_vars

\* a run on lines some of which are no JSON or lack a field
InitLines ==
    InitWith(MaxLines, {1, 2}, {NoOverride, 2}, {TRUE}, {TRUE}, {0}, 0)
NextLines ==
    \/ \E line \in BadLines : HandlerInvalid(line)
    \/ \E line \in LinesBlocks : HandlerValid(line)
    \/ Steps
SpecLines == InitLines /\ [][NextLines]_vars

\* a run with the cache updates and the webhooks on or off, and a database
\* whose calls may throw
InitOrder ==
    InitWith(MaxLines, {1, 2}, {NoOverride}, BOOLEAN, BOOLEAN, {0}, 1)
NextOrder ==
    \/ \E line \in LinesBlocks : HandlerAppend(line) \/ HandlerFlush(line)
    \/ Steps
    \/ Faults
SpecOrder == InitOrder /\ [][NextOrder]_vars

\* a run on lines that differ in value and delete
InitValues ==
    InitWith(MaxLinesValues, {1, 2}, {NoOverride}, {TRUE}, {TRUE}, {0}, 0)
NextValues ==
    \/ \E line \in LinesValues : HandlerAppend(line) \/ HandlerFlush(line)
    \/ Steps
SpecValues == InitValues /\ [][NextValues]_vars

\* subscriptions whose getValue returns the change of the value, with a static
\* endpoint or one that a function returns
OnChange(filterKey, resolve) ==
    [filterKey |-> filterKey, getValue |-> "change", resolve |-> resolve,
     endpoint |-> [type |-> "Url", url |-> "u"]]
\* subscriptions on the key "abc" whose getValue or endpoint throws or returns
\* undefined
Dropped ==
    {[filterKey |-> "97,98,99", getValue |-> g, resolve |-> r,
      endpoint |-> [type |-> "Url", url |-> "v"]] :
        g \in {"change", "throws", "undefined"},
        r \in {"function", "throws", "undefined"}}
      \ {[filterKey |-> "97,98,99", getValue |-> "change",
           resolve |-> "function", endpoint |-> [type |-> "Url", url |-> "v"]]}
\* the lists getProcessedWebhooks may return
ProcessedWebhooks ==
    {<<>>,
     <<OnChange("97,98,99", "static")>>,
     <<OnChange("97,98,99", "function"),
       OnChange("97,98,99,97,98,99", "static")>>}
      \cup {<<w, OnChange("97,98,99", "static")>> : w \in Dropped}

\* a run with webhooks on, under each of these lists
InitWebhooks ==
    /\ InitExporter(MaxLinesWebhooks, {1, 2}, {NoOverride}, {TRUE}, {TRUE},
                    {0}, 0)
    /\ InitHooks({{}}, ProcessedWebhooks, {TRUE})
    /\ evaluation = NoEvaluation
NextWebhooks ==
    \/ \E line \in LinesWebhooks : HandlerAppend(line) \/ HandlerFlush(line)
    \/ Steps
SpecWebhooks == InitWebhooks /\ [][NextWebhooks]_vars

\* the PendingWebhook rows of the delivery runs: one for each pair of endpoints
PendingWebhookRows ==
    {{[id |-> 1, eventId |-> 1, endpoint |-> e1, value |-> "1", failures |-> 0],
      [id |-> 2, eventId |-> 2, endpoint |-> e2, value |-> "1", failures |-> 0]} :
        e1 \in Endpoints, e2 \in Endpoints}

\* the queued webhooks are fired, again after a failure, with a configuration
\* that has a soketi section or not and a database whose calls may throw
InitFire ==
    /\ InitExporter(0, {1}, {NoOverride}, {TRUE}, {TRUE}, {0}, 1)
    /\ InitHooks(PendingWebhookRows, {Webhooks}, BOOLEAN)
    /\ evaluation = NoEvaluation
NextFire ==
    \/ \E row \in pendingWebhooks : Fire(row)
    \/ RequestReturns
    \/ RequestThrows
    \/ Destroy
    \/ DestroyThrows
    \/ Save
    \/ SaveThrows
SpecFire == InitFire /\ [][NextFire]_vars

(***************************************************************************)
(* The formulas votingPower and totalPower of a DAO.                       *)
(***************************************************************************)
\* Map contract name to voting power formula
VOTING_POWER_MAP ==
    [name \in {"cw4-voting", "cwd-voting-cw4", "dao-voting-cw4",
               "cw20-staked-balance-voting", "cwd-voting-cw20-staked",
               "dao-voting-cw20-staked"} |->
        IF name \in {"cw4-voting", "cwd-voting-cw4", "dao-voting-cw4"}
        THEN "daoVotingCw4VotingPower"
        ELSE "daoVotingCw20StakedVotingPower"]

\* Map contract name to total power formula
TOTAL_POWER_MAP ==
    [name \in {"cw4-voting", "cwd-voting-cw4", "dao-voting-cw4",
               "cw20-staked-balance-voting", "cwd-voting-cw20-staked",
               "dao-voting-cw20-staked"} |->
        IF name \in {"cw4-voting", "cwd-voting-cw4", "dao-voting-cw4"}
        THEN "daoVotingCw4TotalPower"
        ELSE "daoVotingCw20StakedTotalPower"]

\* votingModule: get(contractAddress, 'voting_module')
votingModule(env) == env.get[env.contractAddress].voting_module

\* info: get(contractAddress, 'contract_info')
info(env) == env.get[env.contractAddress].contract_info

\* the body votingPower and totalPower share: the formula of the table under
\* 'crates.io:' + votingModuleInfo.contract, called on the voting module, or
\* the error thrown where the table has none
Dispatch(map, env) ==
    LET votingModuleAddress == votingModule(env)
        votingModuleInfo ==
            info([env EXCEPT !.contractAddress = votingModuleAddress])
        name == "crates.io:" \o votingModuleInfo.contract
    IN  IF name \notin DOMAIN map
        THEN [threw |-> TRUE, formula |-> "Unexpected voting module",
              contractAddress |-> votingModuleInfo.contract]
        ELSE [threw |-> FALSE, formula |-> map[name],
              contractAddress |-> votingModuleAddress]

votingPower(env) == Dispatch(VOTING_POWER_MAP, env)
totalPower(env) == Dispatch(TOTAL_POWER_MAP, env)

\* the DAO and the addresses a voting module may have
Dao == "juno1dao"
VotingModules == {"juno1vm", "juno1vn"}
\* contract_info.contract of a voting module: the names of the tables, the same
\* with the crates.io prefix, and the names of other contracts
ContractNames ==
    LET names == {"cw4-voting", "cwd-voting-cw4", "dao-voting-cw4",
                  "cw20-staked-balance-voting", "cwd-voting-cw20-staked",
                  "dao-voting-cw20-staked", "dao-voting-native-staked",
                  "cw-core"}
    IN  names \cup {"crates.io:" \o n : n \in names}

\* env of a formula on the DAO, whose state names a voting module of this
\* contract name (and of this version)
Env(address, contract, version) ==
    [contractAddress |-> Dao,
     get |-> [a \in {Dao, address} |->
                 IF a = Dao
                 THEN [voting_module |-> address,
                       contract_info |->
                           [contract |-> "crates.io:cw-core",
                            version |-> "2"]]
                 ELSE [voting_module |-> "",
                       contract_info |->
                           [contract |-> contract, version |-> version]]]]

\* the evaluations that may be asked for
Evaluations ==
    {[formula |-> f, env |-> Env(a, c, v), done |-> FALSE,
      result |-> [threw |-> FALSE, formula |-> "", contractAddress |-> ""]] :
        f \in {"votingPower", "totalPower"}, a \in VotingModules,
        c \in ContractNames, v \in {"1", "2"}}

\* votingPower is evaluated
EvaluateVotingPower ==
    /\ evaluation.formula = "votingPower"
    /\ ~evaluation.done
    /\ evaluation' = [evaluation EXCEPT !.done = TRUE,
                                        !.result = votingPower(evaluation.env)]
    /\ UNCHANGED <<exporting, pendingWebhooks, faultsLeft, processedWebhooks,
                   soketi, firing, deliveries, fired, queued>>

\* totalPower is evaluated
EvaluateTotalPower ==
    /\ evaluation.formula = "totalPower"
    /\ ~evaluation.done
    /\ evaluation' = [evaluation EXCEPT !.done = TRUE,
                                        !.result = totalPower(evaluation.env)]
    /\ UNCHANGED <<exporting, pendingWebhooks, faultsLeft, processedWebhooks,
                   soketi, firing, deliveries, fired, queued>>

\* one evaluation of one of the two formulas
InitFormulas ==
    /\ InitExporter(0, {1}, {NoOverride}, {TRUE}, {TRUE}, {0}, 0)
    /\ InitHooks({{}}, {Webhooks}, {TRUE})
    /\ evaluation \in Evaluations
NextFormulas ==
    \/ EvaluateVotingPower
    \/ EvaluateTotalPower
SpecFormulas == InitFormulas /\ [][NextFormulas]_vars


\* a run stopped after any line, and a second run on the same stream from its
\* beginning: the lines the first run was given, then the lines it was not
InitResume ==
    InitWith(MaxLines, {1, 2}, {NoOverride, 2}, {TRUE}, {TRUE}, {0}, 0)
NextResume ==
    \/ /\ run = 1
       /\ \E line \in LinesReplay : HandlerValid(line)
    \/ /\ run = 2
       /\ Len(handled) < Len(replayLines)
       /\ HandlerValid(ReplayLine)
    \/ /\ run = 2
       /\ Len(handled) >= Len(replayLines)
       /\ \E line \in LinesReplay : HandlerValid(line)
    \/ Steps
    \/ Restart
SpecResume == InitResume /\ [][NextResume]_vars

\* batches of two events and more, of a contract whose code may change
InitMigration ==
    InitWith(MaxLinesBlocks, {2}, {NoOverride}, {TRUE}, {TRUE}, {0}, 0)
NextMigration ==
    \/ \E line \in LinesMigration : HandlerAppend(line) \/ HandlerFlush(line)
    \/ Steps
SpecMigration == InitMigration /\ [][NextMigration]_vars

(***************************************************************************)
(* What the claims are stated with.                                        *)
(***************************************************************************)
\* (blockHeight, contractAddress, key) of a record of the stream
RecordTuple(e) == <<e.blockHeight, e.contractAddress, e.key>>
\* the last record of a sequence with this tuple
LastOfTuple(evs, t) == Last(SelectSeq(evs, LAMBDA e : RecordTuple(e) = t))
\* the columns of a WasmEvent row that come from the record
Columns(r) ==
    <<r.blockHeight, r.contractAddress, r.key, r.value, r.valueJson, r.delete>>
\* the last write a WasmEvent tuple received
LastWrite(t) == Last(SelectSeq(writes, LAMBDA w : w.tuple = t))

\* the valid records handler was given so far, in the order of the stream
Stream ==
    LET valid == SelectSeq(handled, LAMBDA x : x.outcome # "invalid")
    IN  [i \in 1..Len(valid) |-> valid[i].line]
        \o (IF hpc = "idle" THEN <<>> ELSE <<hevent>>)
\* the records of the stream arrive in non-decreasing blockHeight order
StreamOrdered ==
    \A i, j \in 1..Len(Stream) :
        i < j => Stream[i].blockHeight <= Stream[j].blockHeight
\* the flushes that handler triggered
HandlerCalls == {n \in 1..Len(calls) : calls[n].trigger = "handler"}

(***************************************************************************)
(* C1: a flush triggered by handler runs only on a buffer of at least      *)
(* `batch` records and for an incoming record whose blockHeight is greater *)
(* than lastBlockHeightSeen; and when the stream is in non-decreasing      *)
(* blockHeight order, every buffer flushed by handler holds all accepted   *)
(* events of each block it holds an event of.                              *)
(***************************************************************************)
C1_FlushAtBlockBoundary ==
    /\ hpc = "awaitFlush" =>
          /\ hevent.blockHeight > lastBlockHeightSeen
          /\ \E i \in FlushIds :
                fl[i].trigger = "handler" /\ Len(fl[i].batch) >= batch
    /\ StreamOrdered =>
          \A n \in HandlerCalls :
              \A i \in calls[n].first..calls[n].last :
                  \A j \in 1..Len(Accepted) :
                      Accepted[j].blockHeight = Accepted[i].blockHeight
                          => j \in calls[n].first..calls[n].last

\* an ordered stream of which handler flushed a block of two events, and later
\* the next block
C1_Witness ==
    /\ StreamOrdered
    /\ \E m, n \in HandlerCalls :
          /\ m < n
          /\ calls[m].outcome = "done"
          /\ calls[n].outcome = "done"
          /\ calls[m].last > calls[m].first

C3_DedupKeepsLastPerTuple ==
    \A n \in 1..Len(calls) :
        LET buffer == calls[n].batch
            tuples == {RecordTuple(e) : e \in Range(buffer)}
        IN  /\ Len(calls[n].parsedEvents) = Cardinality(tuples)
            /\ \A t \in tuples :
                  ParseEvent(LastOfTuple(buffer, t))
                      \in Range(calls[n].parsedEvents)

(***************************************************************************)
(* C4: lastWasmBlockHeightExported, latestBlockHeight and                  *)
(* latestBlockTimeUnixMs of the State row never decrease, whatever the     *)
(* order of the blocks: a step that changes the row is the State.update of *)
(* a flush, and sets each field to the maximum of its value and the value  *)
(* of the last event of the batch.                                         *)
(***************************************************************************)
C4_StateStep ==
    /\ dbState'.lastWasmBlockHeightExported >= dbState.lastWasmBlockHeightExported
    /\ dbState'.latestBlockHeight >= dbState.latestBlockHeight
    /\ dbState'.latestBlockTimeUnixMs >= dbState.latestBlockTimeUnixMs
    /\ dbState' # dbState =>
          \E i \in FlushIds :
              LET e == Last(fl[i].parsedEvents)
              IN  /\ fl[i].pc = "state"
                  /\ dbState' =
                        [lastWasmBlockHeightExported |->
                             max(dbState.lastWasmBlockHeightExported,
                                 BigIntOf(e.blockHeight)),
                         latestBlockHeight |->
                             max(dbState.latestBlockHeight,
                                 BigIntOf(e.blockHeight)),
                         latestBlockTimeUnixMs |->
                             max(dbState.latestBlockTimeUnixMs,
                                 BigIntOf(e.blockTimeUnixMs))]

C4_StateNeverDecreases == [][C4_StateStep]_vars

\* a flush has just updated State from a batch whose last event is of a lower
\* block and an earlier time than the row holds
C4_Witness ==
    \E i \in FlushIds :
        /\ fl[i].pc = "reindex"
        /\ BigIntOf(Last(fl[i].parsedEvents).blockHeight)
              < dbState.lastWasmBlockHeightExported
        /\ BigIntOf(Last(fl[i].parsedEvents).blockTimeUnixMs)
              < dbState.latestBlockTimeUnixMs

(***************************************************************************)
(* C5: with initialBlock the initialBlockHeight given, else                *)
(* state.lastWasmBlockHeightExported + 1: no record below initialBlock is  *)
(* appended to the buffer or persisted, every valid record at or above it  *)
(* is appended, and the "caught up" marker is logged exactly once, on the  *)
(* first record at or above it.                                            *)
(***************************************************************************)
ClaimedInitialBlock ==
    IF initialBlockHeight # NoOverride THEN initialBlockHeight
    ELSE state.lastWasmBlockHeightExported + 1

C5_BelowSkipped ==
    /\ \A e \in Range(pending) : e.blockHeight >= ClaimedInitialBlock
    /\ \A r \in wasmEvents : BigIntOf(r.blockHeight) >= ClaimedInitialBlock
    /\ \A k \in 1..Len(handled) :
          (handled[k].outcome # "invalid"
              /\ handled[k].line.blockHeight < ClaimedInitialBlock)
            => handled[k].outcome = "skipped"

C5_CaughtUpOnce ==
    caughtUpLog =
        IF \E k \in 1..Len(Stream) :
               Stream[k].blockHeight >= ClaimedInitialBlock
        THEN 1 ELSE 0

\* the claim as it stands
C5_EveryRecordAppended ==
    /\ C5_BelowSkipped
    /\ C5_CaughtUpOnce
    /\ \A k \in 1..Len(handled) :
          (handled[k].outcome # "invalid"
              /\ handled[k].line.blockHeight >= ClaimedInitialBlock)
            => handled[k].outcome = "appended"

\* the claim amended: a record at or above initialBlock is appended unless the
\* flush that handler awaits before the push throws; handler then throws too
C5_AppendedUnlessFlushThrows ==
    /\ C5_BelowSkipped
    /\ C5_CaughtUpOnce
    /\ \A k \in 1..Len(handled) :
          (handled[k].outcome # "invalid"
              /\ handled[k].line.blockHeight >= ClaimedInitialBlock)
            => \/ handled[k].outcome = "appended"
               \/ /\ handled[k].outcome = "threw"
                  /\ \E n \in HandlerCalls : calls[n].outcome = "threw"
    /\ Cardinality({k \in 1..Len(handled) : handled[k].outcome = "threw"})
          <= Cardinality({n \in HandlerCalls : calls[n].outcome = "threw"})

\* an initial block was given; a record below it was skipped, the next record
\* was appended with the marker, and a third one after it
C5_Witness ==
    /\ initialBlockHeight # NoOverride
    /\ Len(handled) >= 3
    /\ handled[1].outcome = "skipped"
    /\ handled[2].outcome = "appended"
    /\ handled[3].outcome = "appended"
    /\ caughtUpLog = 1
    /\ wasmEvents # {}

(***************************************************************************)
(* C6: the same lines given again to an exporter made with the same        *)
(* initial block leave the database as the first run left it: WasmEvent    *)
(* rows, Contract rows, the State row and PendingWebhook rows.             *)
(***************************************************************************)
Replayed ==
    /\ run = 2
    /\ Idle
    /\ stopped
    /\ pending = <<>>
    /\ Len(handled) = Len(replayLines)

C6_ReplayLeavesDatabase == Replayed => Database = snapshot

(***************************************************************************)
(* C7: in whatever order the events of a block arrive, the WasmEvent rows  *)
(* of the block after the flush are the keep-last-per-(contractAddress,    *)
(* key) projection of the block's events.                                  *)
(***************************************************************************)
KeepLastProjection(evs) ==
    {LET p == ParseEvent(LastOfTuple(evs, t))
     IN  <<p.blockHeight, p.contractAddress, p.key, p.value, p.valueJson,
           p.delete>> : t \in {RecordTuple(e) : e \in Range(evs)}}

C7_RowsAreKeepLastProjection ==
    (Idle /\ pending = <<>>) =>
        {Columns(r) : r \in wasmEvents} = KeepLastProjection(Accepted)

(***************************************************************************)
(* C8: a flush() called while an earlier flush() is in progress finds the  *)
(* buffer empty and does nothing: it does not call exporter, and no event  *)
(* is handed to exporter twice.                                            *)
(***************************************************************************)
C8_SecondFlushIsNoOp ==
    /\ \A n \in 1..Len(calls) : ~calls[n].overlapping
    /\ \A m, n \in 1..Len(calls) : m < n => calls[m].last < calls[n].first

(***************************************************************************)
(* C9: Contract.bulkCreate is tried up to 3 times in one flush; when a try *)
(* succeeds the flush goes on, and when the third try fails flush throws   *)
(* and has written no WasmEvent row.                                       *)
(***************************************************************************)
C9_ContractUpsertRetried ==
    \A i \in FlushIds :
        /\ fl[i].failures <= 3
        /\ fl[i].pc = "contracts" => fl[i].failures < 3
        /\ fl[i].failedAt = "contracts" =>
              /\ fl[i].failures = 3
              /\ fl[i].pc = "threw"
              /\ calls[fl[i].call].outcome = "threw"
              /\ wasmEvents = fl[i].eventsBefore
        /\ fl[i].pc \in {"findContracts", "events", "transform", "computations",
                         "webhooks", "accountWebhooks", "state", "reindex",
                         "clear", "done"} => fl[i].failures < 3

\* the third try of a flush failed and flush threw
C9_Witness ==
    \E i \in FlushIds :
        /\ fl[i].pc = "threw"
        /\ fl[i].failedAt = "contracts"
        /\ fl[i].failures = 3

(***************************************************************************)
(* C10: a flush whose batch has events of a contract that has a Contract   *)
(* row changes only the codeId of the row: instantiatedAtBlockHeight,      *)
(* instantiatedAtBlockTimeUnixMs and instantiatedAtBlockTimestamp keep the *)
(* values of the insert.                                                   *)
(***************************************************************************)
C10_ContractStep ==
    \A r \in contracts :
        \E r2 \in contracts' :
            /\ r2.address = r.address
            /\ r2 = [r EXCEPT !.codeId = r2.codeId]

C10_InstantiatedAtWriteOnce == [][C10_ContractStep]_vars

\* a flush has just upserted a contract that an earlier flush inserted with
\* another codeId at another block
C10_Witness ==
    \E i \in FlushIds, r \in contracts, n \in 1..Len(calls) :
        /\ fl[i].pc = "findContracts"
        /\ n < fl[i].call
        /\ calls[n].outcome = "done"
        /\ r.address \in UniqueContracts(calls[n].parsedEvents)
        /\ r.address \in UniqueContracts(fl[i].parsedEvents)
        /\ ContractRow(calls[n].parsedEvents, r.address).codeId # r.codeId
        /\ ContractRow(fl[i].parsedEvents, r.address).codeId = r.codeId
        /\ ContractRow(fl[i].parsedEvents, r.address).instantiatedAtBlockHeight
              # r.instantiatedAtBlockHeight

(***************************************************************************)
(* C11: whenever no flush is in progress, instantiatedAtBlockHeight of     *)
(* every Contract row whose address has WasmEvent rows is the lowest       *)
(* blockHeight of these rows, however the events were batched and in whatever order the  *)
(* blocks were flushed.                                                    *)
(***************************************************************************)
EventHeightsOf(address) ==
    {BigIntOf(r.blockHeight) : r \in {x \in wasmEvents : x.contractAddress = address}}

C11_InstantiatedAtIsMinimum ==
    Idle =>
        \A c \in contracts :
            EventHeightsOf(c.address) # {} =>
                /\ \A h \in EventHeightsOf(c.address) :
                      BigIntOf(c.instantiatedAtBlockHeight) <= h
                /\ BigIntOf(c.instantiatedAtBlockHeight)
                      \in EventHeightsOf(c.address)

(***************************************************************************)
(* C12: every fire() call sends exactly one request, the one of the        *)
(* endpoint type, and ends in one of two ways: the delivery succeeded and  *)
(* the row is deleted with failures unchanged, or the delivery failed,     *)
(* failures is one more, the row is saved and kept and fire() throws.      *)
(***************************************************************************)
\* the claim as it stands
C12_OneDeliveryTwoOutcomes ==
    \A k \in 1..Len(fired) :
        LET f == fired[k]
        IN  /\ Len(f.requests) = 1
            /\ f.endpoint.type = "Url" => f.requests = <<"axios">>
            /\ f.endpoint.type = "Soketi" => f.requests = <<"pusher">>
            /\ \/ /\ f.delivered
                  /\ f.outcome = "returned"
                  /\ f.stored = Deleted
                  /\ f.after = f.before
               \/ /\ ~f.delivered
                  /\ f.outcome = "threw"
                  /\ f.after = f.before + 1
                  /\ f.saved
                  /\ f.stored = f.after

\* the claim amended: at most one request, the one of the endpoint type, none
\* for Soketi without a soketi configuration or for another type; fire()
\* returns only after a delivery that succeeded and a delete that succeeded,
\* with failures unchanged; in every other case, a delete that throws after a
\* delivery included, failures is one more, the row is kept, saved unless
\* save() throws, and fire() throws
C12_AtMostOneDelivery ==
    /\ Len(firing.requests) <= 1
    /\ \A k \in 1..Len(fired) :
        LET f == fired[k]
        IN  /\ f.requests =
                  IF f.endpoint.type = "Url" THEN <<"axios">>
                  ELSE IF f.endpoint.type = "Soketi" /\ soketi
                       THEN <<"pusher">>
                       ELSE <<>>
            /\ f.outcome \in {"returned", "threw"}
            /\ f.outcome = "returned" =>
                  /\ f.delivered
                  /\ f.stored = Deleted
                  /\ f.after = f.before
            /\ f.outcome = "threw" =>
                  /\ f.after = f.before + 1
                  /\ f.stored = IF f.saved THEN f.after ELSE f.before
            /\ ~f.delivered => f.outcome = "threw"

\* a Url row was delivered and deleted, a request of another call failed and
\* its row was saved with one failure more, and a third call threw after its
\* delivery because the delete threw
C12_Witness ==
    \E i, j, k \in 1..Len(fired) :
        /\ fired[i].endpoint.type = "Url"
        /\ fired[i].outcome = "returned"
        /\ fired[j].requests # <<>>
        /\ ~fired[j].delivered
        /\ fired[j].saved
        /\ fired[k].delivered
        /\ fired[k].outcome = "threw"

(***************************************************************************)
(* C13: a row whose endpoint type is neither Url nor Soketi fails for      *)
(* good: no fire() call sends a request for it, none returns, and the row  *)
(* is never deleted.                                                       *)
(***************************************************************************)
C13_UnknownTypeFailsForGood ==
    /\ \A k \in 1..Len(fired) :
          fired[k].endpoint.type \notin WebhookType =>
              /\ fired[k].requests = <<>>
              /\ ~fired[k].delivered
              /\ fired[k].outcome = "threw"
              /\ fired[k].stored # Deleted
    /\ (firing.pc # "idle" /\ firing.this.endpoint.type \notin WebhookType) =>
          /\ firing.requests = <<>>
          /\ firing.pc = "save"
    /\ \A r \in pendingWebhooks :
          r.endpoint.type \notin WebhookType =>
              \A d \in 1..Len(deliveries) : deliveries[d].id # r.id

\* a row of another type was fired a second time, after a first failure that
\* was saved
C13_Witness ==
    \E j, k \in 1..Len(fired) :
        /\ j < k
        /\ fired[j].id = fired[k].id
        /\ fired[k].endpoint.type \notin WebhookType
        /\ fired[k].before = 1
        /\ fired[k].after = 2

(***************************************************************************)
(* C14: the thunk handed to getValue for an event returns the value (null  *)
(* for a delete) of the most recent event of the same contractAddress and  *)
(* the same key in a lower block: of the batch when the batch has such an  *)
(* event, else of the event store.                                         *)
(***************************************************************************)
\* the events among `evs` of the contract and key of `event`, in a lower block
Earlier(evs, event) ==
    {e \in evs :
        /\ e.contractAddress = event.contractAddress
        /\ e.key = event.key
        /\ BigIntOf(e.blockHeight) < BigIntOf(event.blockHeight)}
\* the value of the most recent of them, null if there is none or it is a delete
MostRecentValue(evs) ==
    IF evs = {} THEN Null
    ELSE LET e == CHOOSE x \in evs :
                      \A y \in evs :
                          BigIntOf(y.blockHeight) <= BigIntOf(x.blockHeight)
         IN  IF e.delete THEN Null ELSE e.valueJson
ClaimedPrevious(events, store, event) ==
    IF Earlier(Range(events), event) # {}
    THEN MostRecentValue(Earlier(Range(events), event))
    ELSE MostRecentValue(Earlier(store, event))

C14_PreviousOfSameKey ==
    \A n \in 1..Len(queued) :
        \A k \in 1..Len(queued[n].rows) :
            LET row == queued[n].rows[k]
                event == CHOOSE e \in Range(queued[n].events) :
                             e.id = row.eventId
            IN  row.value.from =
                    ClaimedPrevious(queued[n].events, queued[n].store, event)

(***************************************************************************)
(* C15: queueWebhooks inserts one PendingWebhook with failures = 0 for     *)
(* each event and subscription whose filter matches and whose getValue and *)
(* endpoint both give a defined result, and for no other: a subscription   *)
(* that throws or gives undefined loses its own row only.                  *)
(***************************************************************************)
\* the subscriptions that the claim has a row made for, for an event
Claimed(event) ==
    {k \in 1..Len(processedWebhooks) :
        /\ processedWebhooks[k].filterKey = event.key
        /\ processedWebhooks[k].getValue \notin {"throws", "undefined"}
        /\ processedWebhooks[k].resolve \notin {"throws", "undefined"}}

C15_OneRowPerDefinedPair ==
    \A n \in 1..Len(queued) :
        LET q == queued[n]
        IN  /\ \A k \in 1..Len(q.rows) :
                  /\ q.rows[k].failures = 0
                  /\ \E e \in Range(q.events) : e.id = q.rows[k].eventId
                  /\ q.rows[k] \in pendingWebhooks
            /\ \A e \in Range(q.events) :
                  LET made == {k \in 1..Len(q.rows) : q.rows[k].eventId = e.id}
                  IN  /\ Cardinality(made) = Cardinality(Claimed(e))
                      /\ \A w \in Claimed(e) :
                            \E k \in made :
                                q.rows[k].endpoint
                                    = processedWebhooks[w].endpoint

\* a call on two events of the key "abc" under a subscription that is dropped
\* and one that is not: one row for each event
C15_Witness ==
    \E n \in 1..Len(queued) :
        /\ Len(queued[n].events) = 2
        /\ Len(queued[n].rows) = 2
        /\ queued[n].rows[1].eventId # queued[n].rows[2].eventId
        /\ Len(processedWebhooks) = 2
        /\ processedWebhooks[1].getValue = "throws"

(***************************************************************************)
(* C16: a line that is no JSON or lacks a required field is captured and   *)
(* skipped: handler returns, and leaves the buffer, lastBlockHeightSeen    *)
(* and catchingUp as they were, starts no flush and writes nothing.        *)
(***************************************************************************)
C16_InvalidLineStep ==
    (Len(handled') = Len(handled) + 1 /\ Last(handled').line \in BadLines) =>
        /\ Last(handled').outcome = "invalid"
        /\ captured' = captured + 1
        /\ hpc' = "idle"
        /\ ~stopped'
        /\ pending' = pending
        /\ lastBlockHeightSeen' = lastBlockHeightSeen
        /\ catchingUp' = catchingUp
        /\ fl' = fl
        /\ calls' = calls
        /\ db' = db

C16_InvalidLineSkipped == [][C16_InvalidLineStep]_vars

\* an invalid line came after an appended one, with the buffer not empty, and
\* a valid line was appended after it
C16_Witness ==
    \E k \in 2..Len(handled) - 1 :
        /\ handled[k - 1].outcome = "appended"
        /\ handled[k].outcome = "invalid"
        /\ handled[k + 1].outcome = "appended"
        /\ Len(pending) >= 2
        /\ ~catchingUp
        /\ captured = 1

(***************************************************************************)
(* C17: the steps of one flush run in this order: (the State row is read,) *)
(* contract upsert, (the contracts are read back,) event upsert,           *)
(* transformations, computation invalidation if enabled, webhook enqueue   *)
(* if enabled, State update, reindex, clear of the buffer.  The State row  *)
(* changes only after the events of the batch are stored, reindex starts   *)
(* only after the State update, and the buffer is cleared only after all.  *)
(***************************************************************************)
ClaimedSteps ==
    <<"getState", "contracts", "findContracts", "events", "transform">>
        \o (IF updateComputations THEN <<"computations">> ELSE <<>>)
        \o (IF sendWebhooks THEN <<"webhooks", "accountWebhooks">> ELSE <<>>)
        \o <<"state", "reindex", "clear", "done">>

C17_FlushStep ==
    /\ \A i \in FlushIds :
          fl'[i].pc # fl[i].pc =>
              \/ fl[i].pc = "idle" /\ fl'[i].pc = ClaimedSteps[1]
              \/ \E k \in 1..Len(ClaimedSteps) - 1 :
                    fl[i].pc = ClaimedSteps[k] /\ fl'[i].pc = ClaimedSteps[k + 1]
              \/ fl[i].pc \notin {"clear", "done"} /\ fl'[i].pc = "threw"
              \/ fl[i].pc \in {"done", "threw"} /\ fl'[i].pc = "idle"
    /\ contracts' # contracts => \E i \in FlushIds : fl[i].pc = "contracts"
    /\ wasmEvents' # wasmEvents => \E i \in FlushIds : fl[i].pc = "events"
    /\ pendingWebhooks' # pendingWebhooks =>
          \E i \in FlushIds : fl[i].pc = "webhooks"
    /\ dbState' # dbState =>
          \E i \in FlushIds :
              /\ fl[i].pc = "state"
              /\ \A k \in 1..Len(fl[i].parsedEvents) :
                    \E r \in wasmEvents :
                        EventTuple(r) = EventTuple(fl[i].parsedEvents[k])
    /\ Len(pending') < Len(pending) =>
          \E i \in FlushIds : fl[i].pc = "clear" /\ fl'[i].pc = "done"

C17_StepsInOrder == [][C17_FlushStep]_vars

\* a flush with cache updates and webhooks on has cleared the buffer, after a
\* State update that changed the row
C17_Witness ==
    \E i \in FlushIds :
        /\ fl[i].pc = "done"
        /\ updateComputations
        /\ sendWebhooks
        /\ pending = <<>>
        /\ dbState.lastWasmBlockHeightExported > 0
        /\ pendingWebhooks # {}

(***************************************************************************)
(* C18: of every event flush hands to exporter, valueJson is null when     *)
(* delete is true; when delete is false it is the parsed JSON of the       *)
(* decoded value if that parses, and null if it does not, the empty        *)
(* decoded value included.                                                 *)
(***************************************************************************)
C18_ValueJsonOfValue ==
    \A n \in 1..Len(calls) :
        \A k \in 1..Len(calls[n].parsedEvents) :
            LET event == UniqueIndexerEvents(calls[n].batch)[k]
                parsed == JsonParse(Base64ToUtf8(event.value))
            IN  calls[n].parsedEvents[k].valueJson =
                    IF event.delete THEN Null
                    ELSE IF parsed.ok THEN parsed.json
                    ELSE Null

\* a flush has normalized a delete whose value is JSON, and an event that is no
\* delete and whose value is empty
C18_Witness ==
    \E n \in 1..Len(calls) :
        \E j, k \in 1..Len(calls[n].parsedEvents) :
            /\ calls[n].parsedEvents[j].delete
            /\ calls[n].parsedEvents[j].value = "1"
            /\ calls[n].parsedEvents[j].valueJson = Null
            /\ ~calls[n].parsedEvents[k].delete
            /\ calls[n].parsedEvents[k].value = ""
            /\ calls[n].parsedEvents[k].valueJson = Null

(***************************************************************************)
(* C19: votingPower and totalPower read the voting module of the DAO and   *)
(* its contract_info.contract and look the name up in a table: for each of *)
(* the six names of the table the result is the sub-formula of the name,   *)
(* evaluated on the voting module, and only for another name is            *)
(* 'Unexpected voting module' thrown.                                      *)
(***************************************************************************)
Cw4Names == {"cw4-voting", "cwd-voting-cw4", "dao-voting-cw4"}
Cw20StakedNames ==
    {"cw20-staked-balance-voting", "cwd-voting-cw20-staked",
     "dao-voting-cw20-staked"}

C19_DispatchByContractName ==
    evaluation.done =>
        LET address == evaluation.env.get[Dao].voting_module
            contract == evaluation.env.get[address].contract_info.contract
            voting == evaluation.formula = "votingPower"
        IN  /\ contract \in Cw4Names =>
                  evaluation.result =
                      [threw |-> FALSE,
                       formula |-> IF voting THEN "daoVotingCw4VotingPower"
                                   ELSE "daoVotingCw4TotalPower",
                       contractAddress |-> address]
            /\ contract \in Cw20StakedNames =>
                  evaluation.result =
                      [threw |-> FALSE,
                       formula |-> IF voting
                                   THEN "daoVotingCw20StakedVotingPower"
                                   ELSE "daoVotingCw20StakedTotalPower",
                       contractAddress |-> address]
            /\ contract \notin Cw4Names \cup Cw20StakedNames =>
                  evaluation.result.threw

(***************************************************************************)
(* C20: when exporter throws at a step of a flush (the third failed        *)
(* Contract.bulkCreate, or any other await), flush throws too and the      *)
(* buffer holds every record it held when the flush began, so the next     *)
(* flush exports the same batch again; and where the step that threw comes *)
(* before the State update, the State row is what it was when the flush    *)
(* began.                                                                  *)
(***************************************************************************)
BeforeStateUpdate ==
    {"getState", "contracts", "findContracts", "events", "transform",
     "computations", "webhooks", "accountWebhooks"}

C20_ThrowStep ==
    /\ \A i \in FlushIds :
          (fl[i].pc # "threw" /\ fl'[i].pc = "threw") =>
              /\ calls'[fl[i].call].outcome = "threw"
              /\ pending' = fl[i].batch
              /\ fl'[i].failedAt \in BeforeStateUpdate =>
                    dbState' = fl[i].stateBefore
    /\ (Len(calls') > Len(calls) /\ calls # <<>>
            /\ calls[Len(calls)].outcome = "threw") =>
          calls'[Len(calls')].batch = calls[Len(calls)].batch

C20_FailedFlushKeepsBatch == [][C20_ThrowStep]_vars

\* a flush threw after three failed upserts of the contracts, and the flush
\* after it exported the same batch
C20_Witness ==
    \E k \in 1..(Len(calls) - 1) :
        /\ calls[k].outcome = "threw"
        /\ captured = 3
        /\ calls[k + 1].outcome = "done"
        /\ calls[k + 1].batch = calls[k].batch
        /\ calls[k].batch # <<>>

(***************************************************************************)
(* C21: once a flush has updated State, lastWasmBlockHeightExported is at  *)
(* least the blockHeight of every WasmEvent row: the checkpoint of a flush *)
(* is that of the highest block of its batch, in whatever order the        *)
(* records of the batch arrived.                                           *)
(***************************************************************************)
C21_CheckpointCoversEveryRow ==
    \A i \in FlushIds :
        fl[i].pc \in {"reindex", "clear", "done"} =>
            \A row \in wasmEvents :
                BigIntOf(row.blockHeight) <= dbState.lastWasmBlockHeightExported

(***************************************************************************)
(* C22: with handler calls made one at a time, once the last flush() has   *)
(* returned, every valid record at or above the initial block has been     *)
(* given to exporter by exactly one flush, as the buffer held it: none     *)
(* left the buffer without a flush and none was given by two flushes.      *)
(***************************************************************************)
\* the last flush() returned and left the buffer empty
FinalFlushDone ==
    /\ Idle
    /\ stopped
    /\ pending = <<>>
    /\ calls # <<>> => Last(calls).outcome = "done"

\* the flushes, of these outcomes, that gave exporter the j-th record pushed
FlushesOf(j, outcomes) ==
    {n \in 1..Len(calls) :
        /\ calls[n].outcome \in outcomes
        /\ j \in calls[n].first..calls[n].last
        /\ calls[n].batch[j - calls[n].first + 1] = Accepted[j]}

\* the claim as it stands
C22_EveryRecordInOneFlush ==
    FinalFlushDone =>
        /\ \A k \in 1..Len(handled) :
              (handled[k].outcome # "invalid"
                  /\ handled[k].line.blockHeight >= ClaimedInitialBlock)
                => handled[k].outcome = "appended"
        /\ \A j \in 1..Len(Accepted) :
              Cardinality(FlushesOf(j, {"done", "threw"})) = 1

\* the claim amended: every record pushed to the buffer was given to exporter
\* by exactly one flush that returned, and besides only by flushes that threw,
\* each followed by a flush of the same records; the only valid record at or
\* above the initial block that was not pushed is the one handler awaited a
\* flush for that threw
C22_EveryPushedRecordInOneFlushDone ==
    FinalFlushDone =>
        /\ \A k \in 1..Len(handled) :
              (handled[k].outcome # "invalid"
                  /\ handled[k].line.blockHeight >= ClaimedInitialBlock)
                => \/ handled[k].outcome = "appended"
                   \/ /\ handled[k].outcome = "threw"
                      /\ \E n \in HandlerCalls : calls[n].outcome = "threw"
        /\ \A j \in 1..Len(Accepted) :
              /\ Cardinality(FlushesOf(j, {"done"})) = 1
              /\ \A n \in FlushesOf(j, {"threw"}) :
                    /\ n < Len(calls)
                    /\ calls[n + 1].batch = calls[n].batch

\* handler flushed a record, a later flush threw and the driver's flush after
\* it gave exporter the same records and returned
C22_Witness ==
    /\ FinalFlushDone
    /\ Len(Accepted) >= 2
    /\ \E m \in HandlerCalls : calls[m].outcome = "done"
    /\ \E n \in 1..(Len(calls) - 1) :
          /\ calls[n].outcome = "threw"
          /\ calls[n + 1].outcome = "done"
          /\ calls[n + 1].trigger = "driver"

(***************************************************************************)
(* C23: a run stopped after any line, its flush(), and a second run of the *)
(* same ordered stream that starts after the last block exported lose no   *)
(* event: when the second run has read the stream to its end and flushed,  *)
(* every record of the stream at or above the initial block of the first   *)
(* run has a WasmEvent row.                                                *)
(***************************************************************************)
\* the second run read the whole stream and its last flush() returned
Resumed ==
    /\ run = 2
    /\ FinalFlushDone
    /\ Len(handled) >= Len(replayLines)
    /\ StreamOrdered

HasRow(e) == \E r \in wasmEvents : EventTuple(r) = EventTuple(ParseEvent(e))

C23_ResumeLosesNoEvent ==
    Resumed =>
        \A k \in 1..Len(handled) :
            handled[k].line.blockHeight >= snapshot[1] => HasRow(handled[k].line)

(***************************************************************************)
(* C24: once a flush has upserted the contracts of a batch that holds      *)
(* several events of one address, at increasing blocks and of different    *)
(* codeId, the codeId of the Contract row is that of the event of the      *)
(* highest block, whether the flush inserted the row or found it.          *)
(***************************************************************************)
\* the events of the batch of this address, in the order of the batch
EventsOf(events, address) ==
    SelectSeq(events, LAMBDA e : e.contractAddress = address)

\* a migration inside the batch
MigratesIn(events) ==
    /\ Len(events) >= 2
    /\ \A j \in 1..(Len(events) - 1) :
          events[j].blockHeight < events[j + 1].blockHeight
    /\ \E j, k \in 1..Len(events) : events[j].codeId # events[k].codeId

C24_CodeIdOfHighestBlock ==
    \A i \in FlushIds :
        fl[i].pc \in {"findContracts", "done"} =>
            \A address \in UniqueContracts(fl[i].batch) :
                MigratesIn(EventsOf(fl[i].batch, address)) =>
                    \A r \in contracts :
                        r.address = address =>
                            r.codeId =
                                Last(EventsOf(fl[i].batch, address)).codeId

====
